---- MODULE Spec2Model ----
(***************************************************************************)
(* A model of kwaak's agent session layer (src/agent/session.rs):          *)
(*   - the tool policy: available_builtin_tools and build_plan_and_act;    *)
(*   - SessionBuilder::start, the startup pipeline;                        *)
(*   - the RunningSession handle: the active-agent slot behind its mutex,  *)
(*     the cancel token behind its mutex, the message actor and its        *)
(*     channel, the MCP toolbox connections and the Drop implementation.   *)
(***************************************************************************)
EXTENDS Integers, Sequences, FiniteSets, TLC

(***************************************************************************)
(* Bounds of the model.                                                    *)
(***************************************************************************)
\* callers that may hold a clone of the RunningSession
NumClients == 2
\* agents besides agent 0, the one start() built; any of them can be swapped in
NumAgents == 1
\* MCP providers configured, and toolbox connections of the running session
NumConns == 2
\* SwapAgent messages sent over the whole run
MaxMsgs == 2
\* CancellationToken::new() calls after the one in start()
MaxTokens == 2
\* RunningSession::clone() calls by callers
MaxClones == 2
\* names in the configured disabled-tools list
MaxDisabled == 1

Clients == 1..NumClients
Agents == 0..NumAgents
Conns == 1..NumConns
Tokens == 0..MaxTokens

NoOwner == "free"
Locked == "locked"
NoToken == -1
NoAgent == -1

\* A RunningAgent handle is a struct of several fields; a value is whole when
\* all its fields belong to the same agent.
Whole(a) == <<a, a>>
IsWhole(h) == h[1] = h[2]

VARIABLES
    \* ---- SessionBuilder::start ----
    config,            \* repository.config(), as far as start() reads it
    on_agent_build,    \* the builder's hook: "none", or how the hook ends
    st,                \* where start() is
    joinSteps,         \* the four futures of try_join!
    result,            \* what start() returned: "none" yet, "ok", or the error
    git_environment,   \* GitAgentEnvironment::setup done
    builtin_tools,     \* available_builtin_tools's list
    opened,            \* providers whose connection start_mcp_toolboxes opened
    mcp_toolboxes,     \* the Vec<McpToolbox> start() holds, then the session
    delegate_tools,    \* the outer agent's tools (plan-and-act)
    builder,           \* the AgentBuilder: "none", "built", "customized"
    hookCalls,         \* calls of the on_agent_build hook
    \* ---- RunningSession (shared between the clones) ----
    active_agent,      \* Arc<Mutex<RunningAgent>>: the value in the slot
    agentMutex,        \* the slot's mutex: free or locked
    cancel_token,      \* Arc<Mutex<CancellationToken>>: the current token
    tokensMade,        \* tokens created so far (fresh token ids)
    cancelled,         \* tokens on which cancel() was called
    attempts,          \* per connection: calls of McpToolbox::cancel
    message_task_handle, \* "held" while some clone carries the AbortOnDropHandle
    \* ---- the callers ----
    flavor,            \* flavor of the runtime start() ran on
    holds,             \* which caller holds a RunningSession clone
    pc,                \* where each caller is
    arg,               \* the agent a caller's swap_agent is writing
    copied,            \* the agent handle a caller's stop() copied
    tok,               \* the tokens of which some caller holds a copy (from cancel_token())
    clonesMade,
    descriptor_held,   \* the Session, or its sender, is held outside the RunningSession clones
    \* ---- the message actor and its channel ----
    running_session_rx, \* messages sent and not yet received
    actor,             \* [pc, msg] of running_message_handler
    \* ---- history ----
    sent,              \* agents of the SwapAgent messages whose send returned Ok
    applied,           \* agents the actor has written to the slot
    written,           \* agents some swap_agent call has written to the slot
    lastRead,          \* per caller: the last value active_agent() returned
    stopRequested,     \* the agent handle whose stop() was called last
    stopEntry,         \* per caller: token current when its stop() was called
    runOnCancelled,    \* some run began while the current token was cancelled
    lastDrop,          \* what the last Drop::drop did
    panicked           \* some Drop::drop panicked

startVars == <<config, on_agent_build, st, joinSteps, result, git_environment,
               builtin_tools, opened, mcp_toolboxes, delegate_tools, builder,
               hookCalls>>

runVars == <<active_agent, agentMutex, cancel_token, tokensMade, cancelled,
             attempts, message_task_handle, flavor, holds, pc, arg, copied, tok,
             clonesMade, descriptor_held, running_session_rx, actor, sent, applied,
             written, lastRead, stopRequested, stopEntry, runOnCancelled, lastDrop,
             panicked>>

vars == <<startVars, runVars>>

RuntimeFlavors == {"multi_thread", "current_thread"}
\* where a clone is released: on a worker of the session's runtime, or on a
\* thread with no runtime entered
Contexts == {"worker", "none"}

NoDrop == [ran |-> FALSE, panic |-> FALSE, attempted |-> {}, logged |-> {}]

(***************************************************************************)
(* The tool policy.  A tool is identified by the name it reports           *)
(* (Tool::name): for the tools made by a function of the tools module the  *)
(* function's name, for the struct tools the struct's name in snake case.  *)
(***************************************************************************)
EditModes == {"Whole", "Line", "Patch"}

\* vec![...] of available_builtin_tools (408-416)
BaselineTools ==
    <<"write_file", "search_file", "git", "shell_command", "search_code",
      "fetch_url", "explain_code">>

EditModeToolsAllGroups(mode) ==
    <<"write_file", "read_file", "read_file_with_line_numbers", "replace_lines",
      "add_lines", "read_file_with_line_numbers", "patch_file">>

\* match repository.config().agent_edit_mode (419-433)
EditModeTools(mode) ==
    CASE mode = "Whole" -> <<"write_file", "read_file">>
      [] mode = "Line" -> <<"read_file_with_line_numbers", "replace_lines", "add_lines">>
      [] mode = "Patch" -> <<"read_file_with_line_numbers", "patch_file">>

RetainAfterBaseline(tools, disabled) ==
    LET keep(t) == t \notin disabled
        n == Len(BaselineTools)
    IN  SubSeq(tools, 1, n) \o SelectSeq(SubSeq(tools, n + 1, Len(tools)), keep)

\* tools.retain(|tool| !disabled_tools().iter().any(|s| *s == tool.name())) (461-467)
Retain(tools, disabled) ==
    LET keep(t) == t \notin disabled IN SelectSeq(tools, keep)

\* available_builtin_tools (402-470); Tavily's builder can fail (443)
available_builtin_tools(cfg, agent_env) ==
    LET mode == BaselineTools \o EditModeTools(cfg.agent_edit_mode)
        github == IF cfg.github
                  THEN mode \o <<"create_or_update_pull_request", "github_search_code">>
                  ELSE mode
        web == IF cfg.tavily_api_key # "none" THEN Append(github, "search_web")
               ELSE github
        test == IF cfg.test THEN Append(web, "run_tests") ELSE web
        coverage == IF cfg.coverage THEN Append(test, "run_coverage") ELSE test
        reset == IF agent_env # "none" THEN Append(coverage, "reset_file")
                 ELSE coverage
    IN  IF cfg.tavily_api_key = "unusable"
        THEN [ok |-> FALSE, tools |-> <<>>]
        ELSE [ok |-> TRUE, tools |-> Retain(reset, cfg.disabled_tools)]

BLACKLIST_DELEGATE_TOOLS ==
    <<"write_file", "shell_command", "write_file", "replace_lines", "add_lines">>

Contains(s, x) == \E i \in DOMAIN s : s[i] = x

DelegateToolName == "delegate_coding_agent"

DelegateToolsUnfiltered(available_tools) == Append(available_tools, DelegateToolName)

\* the filter and chain of build_plan_and_act (266-272)
DelegateTools(available_tools) ==
    LET allowed(t) == ~Contains(BLACKLIST_DELEGATE_TOOLS, t)
    IN  Append(SelectSeq(available_tools, allowed), DelegateToolName)

ToolNames ==
    {"write_file", "search_file", "git", "shell_command", "search_code",
     "fetch_url", "explain_code", "read_file", "read_file_with_line_numbers",
     "replace_lines", "add_lines", "patch_file", "create_or_update_pull_request",
     "github_search_code", "search_web", "run_tests", "run_coverage",
     "reset_file"}

(***************************************************************************)
(* The configurations.                                                     *)
(***************************************************************************)
RECURSIVE SetsUpTo(_, _)
SetsUpTo(S, k) ==
    IF k = 0 THEN {{}}
    ELSE LET smaller == SetsUpTo(S, k - 1)
         IN  smaller \cup {d \cup {x} : d \in smaller, x \in S}

RECURSIVE SeqsUpTo(_, _)
SeqsUpTo(S, k) ==
    IF k = 0 THEN {<<>>}
    ELSE LET shorter == SeqsUpTo(S, k - 1)
         IN  shorter \cup {Append(s, x) : s \in shorter, x \in S}

\* how starting a configured provider ends (484, 505)
ProviderKinds == {"ok", "empty_command", "spawn_fails", "handshake_fails"}

AgentConfigurations == {"Coding", "PlanAct"}

\* every tool configuration, with no MCP provider
ToolConfigs ==
    [agent : AgentConfigurations,
     agent_edit_mode : EditModes,
     github : BOOLEAN,
     tavily_api_key : {"none", "key", "unusable"},
     test : BOOLEAN,
     coverage : BOOLEAN,
     disabled_tools : SetsUpTo(ToolNames \cup {DelegateToolName}, MaxDisabled),
     mcp : {<<>>}]

\* every list of MCP providers, with the optional tools left out
StartConfigs ==
    [agent : AgentConfigurations,
     agent_edit_mode : EditModes,
     github : {FALSE},
     tavily_api_key : {"none", "unusable"},
     test : {FALSE},
     coverage : {FALSE},
     disabled_tools : {{}},
     mcp : SeqsUpTo(ProviderKinds, NumConns)]

\* the configuration of the session the running specifications start from
RunningConfig ==
    [agent |-> "Coding", agent_edit_mode |-> "Whole", github |-> FALSE,
     tavily_api_key |-> "none", test |-> FALSE, coverage |-> FALSE,
     disabled_tools |-> {}, mcp |-> [i \in Conns |-> "ok"]]

JoinStepNames ==
    <<"rename_chat", "start_tool_executor", "create_branch_name",
      "generate_initial_context">>

JoinSteps == DOMAIN JoinStepNames

(***************************************************************************)
(* Initial states.                                                         *)
(***************************************************************************)
\* the RunningSession's part of the state; before start() returns there is no
\* handle, no actor and no task handle
RunInit(h, clones, task, actorPc, flavors) ==
    /\ active_agent = Whole(0)
    /\ agentMutex = NoOwner
    /\ cancel_token = 0
    /\ tokensMade = 0
    /\ cancelled = {}
    /\ attempts = [c \in Conns |-> 0]
    /\ message_task_handle = task
    /\ flavor \in flavors
    /\ holds = h
    /\ pc = [p \in Clients |-> "idle"]
    /\ arg = [p \in Clients |-> NoAgent]
    /\ copied = [p \in Clients |-> Whole(NoAgent)]
    /\ tok = {}
    /\ clonesMade = clones
    /\ descriptor_held = TRUE
    /\ running_session_rx = <<>>
    /\ actor = [pc |-> actorPc, msg |-> NoAgent]
    /\ sent = <<>>
    /\ applied = <<>>
    /\ written = {}
    /\ lastRead = [p \in Clients |-> Whole(0)]
    /\ stopRequested = Whole(NoAgent)
    /\ stopEntry = [p \in Clients |-> NoToken]
    /\ runOnCancelled = FALSE
    /\ lastDrop = NoDrop
    /\ panicked = FALSE

\* start() has returned Ok for RunningConfig (187-205)
StartDone ==
    /\ config = RunningConfig
    /\ on_agent_build = "none"
    /\ st = "running"
    /\ joinSteps = [i \in JoinSteps |-> "ok"]
    /\ result = "ok"
    /\ git_environment = "ready"
    /\ builtin_tools = available_builtin_tools(RunningConfig, "ready").tools
    /\ opened = Conns
    /\ mcp_toolboxes = [i \in Conns |-> i]
    /\ delegate_tools = <<>>
    /\ builder = "built"
    /\ hookCalls = 0

\* the state start() returns: the caller holds the returned RunningSession, the
\* actor holds a clone made before the task handle was stored
InitRunning ==
    /\ StartDone
    /\ RunInit([p \in Clients |-> p = 1], 0, "held", "recv", RuntimeFlavors)

\* every caller holds a clone of the RunningSession start() returned
InitShared ==
    /\ StartDone
    /\ RunInit([p \in Clients |-> TRUE], NumClients - 1, "held", "recv",
               {"multi_thread"})

\* start() is called
InitStart ==
    /\ config \in StartConfigs
    /\ on_agent_build \in {"none", "ok", "err"}
    /\ st = "new"
    /\ joinSteps = [i \in JoinSteps |-> "pending"]
    /\ result = "none"
    /\ git_environment = "none"
    /\ builtin_tools = <<>>
    /\ opened = {}
    /\ mcp_toolboxes = <<>>
    /\ delegate_tools = <<>>
    /\ builder = "none"
    /\ hookCalls = 0
    /\ RunInit([p \in Clients |-> FALSE], 0, "none", "none", {"multi_thread"})

\* start() has set up the git environment and is about to assemble the tools (144)
InitTools ==
    /\ config \in ToolConfigs
    /\ on_agent_build = "none"
    /\ st = "tools"
    /\ joinSteps = [i \in JoinSteps |-> "ok"]
    /\ result = "none"
    /\ git_environment = "ready"
    /\ builtin_tools = <<>>
    /\ opened = {}
    /\ mcp_toolboxes = <<>>
    /\ delegate_tools = <<>>
    /\ builder = "none"
    /\ hookCalls = 0
    /\ RunInit([p \in Clients |-> FALSE], 0, "none", "none", {"multi_thread"})

slotVars == <<active_agent, agentMutex, written>>
tokenVars == <<cancel_token, tokensMade, cancelled>>
dropVars == <<attempts, message_task_handle, holds, clonesMade, lastDrop, panicked>>
chanVars == <<running_session_rx, actor, sent, applied>>

(***************************************************************************)
(* std::sync::Mutex: lock() returns only while nobody holds the mutex.     *)
(***************************************************************************)
CanLockBroken(m) == TRUE

CanLock(m) == m = NoOwner

(***************************************************************************)
(* RunningSession::active_agent (324-326): lock, clone, unlock.            *)
(***************************************************************************)
GuardHeldAfterCopy(m) == Locked

\* the MutexGuard of `self.active_agent.lock().unwrap().clone()` is a temporary:
\* it is dropped at the end of the statement that made the copy (325, 386),
\* before the copy's query(), run() or stop() is awaited
GuardAfterCopy(m) == m

ActiveAgent(p) ==
    /\ holds[p] /\ pc[p] = "idle"
    /\ CanLock(agentMutex)
    /\ lastRead' = [lastRead EXCEPT ![p] = active_agent]
    /\ UNCHANGED <<startVars, descriptor_held, slotVars, tokenVars, dropVars, chanVars, flavor, pc, arg,
                   copied, tok, stopRequested, stopEntry, runOnCancelled>>

(***************************************************************************)
(* RunningSession::swap_agent (343-346).  `*lock = running_agent` moves a  *)
(* multi-field struct into the slot while the guard is held; the guard is  *)
(* dropped at the end of the function.                                     *)
(***************************************************************************)
swap_agent_lock(a) ==
    /\ CanLock(agentMutex)
    /\ agentMutex' = Locked
    /\ active_agent' = <<a, active_agent[2]>>
    /\ UNCHANGED written

swap_agent_unlock(a) ==
    /\ active_agent' = <<active_agent[1], a>>
    /\ agentMutex' = NoOwner
    /\ written' = written \cup {a}

SwapAgent(p, a) ==
    /\ holds[p] /\ pc[p] = "idle"
    /\ swap_agent_lock(a)
    /\ pc' = [pc EXCEPT ![p] = "swap_write"]
    /\ arg' = [arg EXCEPT ![p] = a]
    /\ UNCHANGED <<startVars, descriptor_held, tokenVars, dropVars, chanVars, flavor, copied, tok, lastRead,
                   stopRequested, stopEntry, runOnCancelled>>

SwapAgentDone(p) ==
    /\ pc[p] = "swap_write"
    /\ swap_agent_unlock(arg[p])
    /\ pc' = [pc EXCEPT ![p] = "idle"]
    /\ arg' = [arg EXCEPT ![p] = NoAgent]
    /\ UNCHANGED <<startVars, descriptor_held, tokenVars, dropVars, chanVars, flavor, copied, tok, lastRead,
                   stopRequested, stopEntry, runOnCancelled>>

(***************************************************************************)
(* Session::swap_agent (88-92): send a SwapAgent message.  The send fails  *)
(* (and changes nothing) once the receiver is gone.                        *)
(***************************************************************************)
SessionSwapAgent(a) ==
    /\ Len(sent) < MaxMsgs
    /\ descriptor_held
    /\ actor.pc # "dead"
    /\ running_session_rx' = Append(running_session_rx, a)
    /\ sent' = Append(sent, a)
    /\ UNCHANGED <<startVars, descriptor_held, slotVars, tokenVars, dropVars, actor, applied, flavor, pc, arg,
                   copied, tok, lastRead, stopRequested, stopEntry,
                   runOnCancelled>>

\* The references to the Session outside the RunningSession clones are dropped:
\* the SessionBuilder with the sender it stores (105) and the tools that hold
\* an Arc<Session> (252); with them goes every way to call Session::swap_agent.
ReleaseDescriptor ==
    /\ descriptor_held
    /\ descriptor_held' = FALSE
    /\ UNCHANGED <<startVars, slotVars, tokenVars, dropVars, chanVars, sent,
                   applied, flavor, pc, arg, copied, tok, lastRead,
                   stopRequested, stopEntry, runOnCancelled>>

(***************************************************************************)
(* running_message_handler (210-222): receive one message, apply it with   *)
(* RunningSession::swap_agent, loop.                                       *)
(***************************************************************************)
RecvLast(q) == <<q[Len(q)], SubSeq(q, 1, Len(q) - 1)>>

\* UnboundedReceiver::recv: the oldest message
RecvTail(q) == <<Head(q), Tail(q)>>

ActorRecv ==
    /\ actor.pc = "recv"
    /\ running_session_rx # <<>>
    /\ LET r == RecvTail(running_session_rx) IN
        /\ actor' = [pc |-> "swap", msg |-> r[1]]
        /\ running_session_rx' = r[2]
    /\ UNCHANGED <<startVars, descriptor_held, slotVars, tokenVars, dropVars, sent, applied, flavor, pc, arg,
                   copied, tok, lastRead, stopRequested, stopEntry,
                   runOnCancelled>>

ActorSwapAgent ==
    /\ actor.pc = "swap"
    /\ swap_agent_lock(actor.msg)
    /\ actor' = [actor EXCEPT !.pc = "swap_write"]
    /\ UNCHANGED <<startVars, descriptor_held, tokenVars, dropVars, running_session_rx, sent, applied, flavor,
                   pc, arg, copied, tok, lastRead, stopRequested,
                   stopEntry, runOnCancelled>>

ActorSwapAgentDone ==
    /\ actor.pc = "swap_write"
    /\ swap_agent_unlock(actor.msg)
    /\ actor' = [pc |-> "recv", msg |-> NoAgent]
    /\ applied' = Append(applied, actor.msg)
    /\ UNCHANGED <<startVars, descriptor_held, tokenVars, dropVars, running_session_rx, sent, flavor, pc, arg,
                   copied, tok, lastRead, stopRequested, stopEntry,
                   runOnCancelled>>

(***************************************************************************)
(* The cancel token (364-376).  Each method locks, reads or replaces the   *)
(* token, and unlocks within one statement.                                *)
(***************************************************************************)
CancelToken(p) ==
    /\ holds[p] /\ pc[p] = "idle"
    /\ tok' = tok \cup {cancel_token}
    /\ UNCHANGED <<startVars, descriptor_held, slotVars, tokenVars, dropVars, chanVars, flavor, pc, arg,
                   copied, lastRead, stopRequested, stopEntry, runOnCancelled>>

CancelWithLaterTokens(t) ==
    /\ t \in tok
    /\ t \notin cancelled
    /\ cancelled' = cancelled \cup {u \in Tokens : t <= u /\ u <= tokensMade}
    /\ UNCHANGED <<startVars, descriptor_held, slotVars, cancel_token, tokensMade,
                   dropVars, chanVars, flavor, pc, arg, copied, tok, lastRead,
                   stopRequested, stopEntry, runOnCancelled>>

\* CancellationToken::cancel() on a copy some caller holds
Cancel(t) ==
    /\ t \in tok
    /\ t \notin cancelled
    /\ cancelled' = cancelled \cup {t}
    /\ UNCHANGED <<startVars, descriptor_held, slotVars, cancel_token, tokensMade, dropVars, chanVars, flavor,
                   pc, arg, copied, tok, lastRead, stopRequested,
                   stopEntry, runOnCancelled>>

reset_cancel_token_keep ==
    /\ tokensMade < MaxTokens
    /\ UNCHANGED <<startVars, cancel_token, tokensMade, cancelled>>

reset_cancel_token ==
    /\ tokensMade < MaxTokens
    /\ cancel_token' = tokensMade + 1
    /\ tokensMade' = tokensMade + 1
    /\ UNCHANGED cancelled

ResetCancelToken(p) ==
    /\ holds[p] /\ pc[p] = "idle"
    /\ reset_cancel_token
    /\ UNCHANGED <<startVars, descriptor_held, slotVars, dropVars, chanVars, flavor, pc, arg, copied, tok,
                   lastRead, stopRequested, stopEntry, runOnCancelled>>

(***************************************************************************)
(* RunningSession::stop (383-388): reset the token, copy the active agent  *)
(* under the lock, then await the copy's stop().                           *)
(***************************************************************************)
StopReset(p) ==
    /\ holds[p] /\ pc[p] = "idle"
    /\ reset_cancel_token
    /\ stopEntry' = [stopEntry EXCEPT ![p] = cancel_token]
    /\ pc' = [pc EXCEPT ![p] = "stop_copy"]
    /\ UNCHANGED <<startVars, descriptor_held, slotVars, dropVars, chanVars, flavor, arg, copied, tok,
                   lastRead, stopRequested, runOnCancelled>>

StopCopy(p) ==
    /\ pc[p] = "stop_copy"
    /\ CanLock(agentMutex)
    /\ copied' = [copied EXCEPT ![p] = active_agent]
    /\ agentMutex' = GuardAfterCopy(agentMutex)
    /\ pc' = [pc EXCEPT ![p] = "stop_await"]
    /\ UNCHANGED <<startVars, descriptor_held, active_agent, written, tokenVars, dropVars, chanVars, flavor, arg, tok,
                   lastRead, stopRequested, stopEntry, runOnCancelled>>

StopAgentInSlot(p) ==
    /\ pc[p] = "stop_await"
    /\ stopRequested' = active_agent
    /\ pc' = [pc EXCEPT ![p] = "idle"]
    /\ copied' = [copied EXCEPT ![p] = Whole(NoAgent)]
    /\ stopEntry' = [stopEntry EXCEPT ![p] = NoToken]
    /\ UNCHANGED <<startVars, descriptor_held, slotVars, tokenVars, dropVars,
                   chanVars, flavor, arg, tok, lastRead, runOnCancelled>>

StopAgent(p) ==
    /\ pc[p] = "stop_await"
    /\ stopRequested' = copied[p]
    /\ pc' = [pc EXCEPT ![p] = "idle"]
    /\ copied' = [copied EXCEPT ![p] = Whole(NoAgent)]
    /\ stopEntry' = [stopEntry EXCEPT ![p] = NoToken]
    /\ UNCHANGED <<startVars, descriptor_held, slotVars, tokenVars, dropVars, chanVars, flavor, arg, tok,
                   lastRead, runOnCancelled>>

(***************************************************************************)
(* RunningSession::query_agent / run_agent (329-336): copy the active      *)
(* agent and run it.  Neither looks at the cancel token.                   *)
(***************************************************************************)
BeginRun(p) ==
    /\ holds[p] /\ pc[p] = "idle"
    /\ CanLock(agentMutex)
    /\ agentMutex' = GuardAfterCopy(agentMutex)
    /\ pc' = [pc EXCEPT ![p] = "running"]
    /\ runOnCancelled' = (runOnCancelled \/ cancel_token \in cancelled)
    /\ UNCHANGED <<startVars, descriptor_held, active_agent, written, tokenVars, dropVars, chanVars, flavor, arg, copied,
                   tok, lastRead, stopRequested, stopEntry>>

QueryAgent(p) == BeginRun(p)

RunAgent(p) == BeginRun(p)

\* the agent's run ends, with Ok or with an error handed to the caller
RunEnd(p) ==
    /\ pc[p] = "running"
    /\ pc' = [pc EXCEPT ![p] = "idle"]
    /\ UNCHANGED <<startVars, descriptor_held, slotVars, tokenVars, dropVars, chanVars, flavor, arg, copied,
                   tok, lastRead, stopRequested, stopEntry, runOnCancelled>>


(***************************************************************************)
(* impl Drop for RunningSession (303-315).  Every clone runs it when it is *)
(* released.  tokio::task::block_in_place panics on a worker of a          *)
(* current-thread runtime; tokio::runtime::Handle::current() panics on a   *)
(* thread that has entered no runtime.  Otherwise the loop calls cancel()  *)
(* on every toolbox of the clone and logs each error.                      *)
(***************************************************************************)
BlockInPlacePanics(ctx) == ctx = "worker" /\ flavor = "current_thread"

HandleCurrentPanics(ctx) == ctx = "none"

\* for mcp in &mut self.mcp_toolboxes { if let Err(err) = mcp.cancel().await { log } }
RECURSIVE CancelLoop(_, _, _, _)
CancelLoop(toolboxes, i, failing, acc) ==
    IF i > Len(toolboxes) THEN acc
    ELSE CancelLoop(toolboxes, i + 1, failing,
                    [acc EXCEPT !.attempted = @ \cup {toolboxes[i]},
                                !.logged = IF toolboxes[i] \in failing
                                           THEN @ \cup {toolboxes[i]} ELSE @])

DropRunningSession(ctx, failing) ==
    LET panic == BlockInPlacePanics(ctx) \/ HandleCurrentPanics(ctx)
        start == [ran |-> TRUE, panic |-> panic, attempted |-> {}, logged |-> {}]
        done == IF panic THEN start
                ELSE CancelLoop(mcp_toolboxes, 1, failing, start)
    IN  /\ attempts' = [c \in Conns |->
                          IF c \in done.attempted THEN attempts[c] + 1
                          ELSE attempts[c]]
        /\ lastDrop' = done
        /\ panicked' = (panicked \/ panic)

\* RunningSession is #[derive(Clone)] (289)
Clone(p, q) ==
    /\ holds[p] /\ pc[p] = "idle"
    /\ ~holds[q] /\ pc[q] = "idle"
    /\ clonesMade < MaxClones
    /\ holds' = [holds EXCEPT ![q] = TRUE]
    /\ clonesMade' = clonesMade + 1
    /\ UNCHANGED <<startVars, descriptor_held, slotVars, tokenVars, chanVars, attempts, message_task_handle,
                   lastDrop, panicked, flavor, pc, arg, copied, tok, lastRead,
                   stopRequested, stopEntry, runOnCancelled>>

DetachOnDrop(p) == message_task_handle

\* Option<Arc<AbortOnDropHandle<()>>> (203, 292): dropping the last clone that
\* carries the handle aborts the task
AbortOnDrop(p) ==
    IF \E q \in Clients \ {p} : holds[q] THEN message_task_handle
    ELSE "aborted"

\* A caller releases its clone: Drop::drop runs, then the fields are dropped;
\* the last Arc<AbortOnDropHandle> aborts the actor's task.
Release(p, ctx, failing) ==
    /\ holds[p] /\ pc[p] = "idle"
    /\ DropRunningSession(ctx, failing)
    /\ holds' = [holds EXCEPT ![p] = FALSE]
    /\ message_task_handle' = AbortOnDrop(p)
    /\ UNCHANGED <<startVars, descriptor_held, slotVars, tokenVars, chanVars, clonesMade, flavor, pc, arg,
                   copied, tok, lastRead, stopRequested, stopEntry,
                   runOnCancelled>>

\* The aborted task is cancelled at its await point (recv): the receiver and
\* the actor's own RunningSession clone are dropped on a runtime worker.
ActorAborted(failing) ==
    /\ message_task_handle = "aborted"
    /\ actor.pc = "recv"
    /\ actor' = [pc |-> "dead", msg |-> NoAgent]
    /\ running_session_rx' = <<>>
    /\ DropRunningSession("worker", failing)
    /\ UNCHANGED <<startVars, descriptor_held, slotVars, tokenVars, sent, applied, message_task_handle, holds,
                   clonesMade, flavor, pc, arg, copied, tok, lastRead,
                   stopRequested, stopEntry, runOnCancelled>>

(***************************************************************************)
(* SessionBuilder::start (98-206).                                         *)
(***************************************************************************)
sessionVars == <<message_task_handle, holds, actor>>

restVars == <<active_agent, agentMutex, cancel_token, tokensMade, cancelled,
              attempts, flavor, pc, arg, copied, tok, clonesMade, descriptor_held,
              running_session_rx, sent, applied, written, lastRead,
              stopRequested, stopEntry, runOnCancelled, lastDrop, panicked>>

\* the channel, the Session and the fast query provider (102-120)
BuildSession(r) ==
    /\ st = "new"
    /\ st' = IF r = "ok" THEN "join" ELSE "failed"
    /\ result' = IF r = "ok" THEN result ELSE r
    /\ UNCHANGED <<config, on_agent_build, joinSteps, git_environment,
                   builtin_tools, opened, mcp_toolboxes, delegate_tools, builder,
                   hookCalls, sessionVars, restVars>>

TryJoinAwaitsAll(steps) ==
    IF \A i \in JoinSteps : steps[i] # "pending" THEN "ok" ELSE "pending"

\* tokio::try_join! (122-139): Err as soon as one future returns Err, Ok once
\* all four returned Ok
TryJoin(steps) ==
    IF \E i \in JoinSteps : steps[i] = "err" THEN "err"
    ELSE IF \A i \in JoinSteps : steps[i] = "ok" THEN "ok"
    ELSE "pending"

\* one of the four futures completes
JoinStep(i, r) ==
    /\ st = "join"
    /\ joinSteps[i] = "pending"
    /\ joinSteps' = [joinSteps EXCEPT ![i] = r]
    /\ LET joined == TryJoin(joinSteps') IN
        /\ st' = CASE joined = "err" -> "failed"
                   [] joined = "ok" -> "git"
                   [] OTHER -> "join"
        /\ result' = IF joined = "err" THEN JoinStepNames[i] ELSE result
    /\ UNCHANGED <<config, on_agent_build, git_environment, builtin_tools, opened,
                   mcp_toolboxes, delegate_tools, builder, hookCalls, sessionVars,
                   restVars>>

\* GitAgentEnvironment::setup (141-142)
GitSetup(r) ==
    /\ st = "git"
    /\ git_environment' = IF r = "ok" THEN "ready" ELSE "failed"
    /\ st' = IF r = "ok" THEN "tools" ELSE "failed"
    /\ result' = IF r = "ok" THEN result ELSE "git_environment"
    /\ UNCHANGED <<config, on_agent_build, joinSteps, builtin_tools, opened,
                   mcp_toolboxes, delegate_tools, builder, hookCalls, sessionVars,
                   restVars>>

\* available_builtin_tools(&session.repository, Some(&git_environment), index)? (144-145)
AssembleTools ==
    /\ st = "tools"
    /\ LET r == available_builtin_tools(config, git_environment) IN
        /\ builtin_tools' = r.tools
        /\ st' = IF r.ok THEN "mcp" ELSE "failed"
        /\ result' = IF r.ok THEN result ELSE "tavily"
    /\ UNCHANGED <<config, on_agent_build, joinSteps, git_environment, opened,
                   mcp_toolboxes, delegate_tools, builder, hookCalls, sessionVars,
                   restVars>>

\* start_mcp_toolboxes (472-521): the providers in order; the first one that
\* cannot be started ends the function with its error, and `services` is dropped
RECURSIVE start_mcp_toolboxes(_, _, _)
start_mcp_toolboxes(mcp, i, services) ==
    IF i > Len(mcp) THEN [ok |-> TRUE, services |-> services, err |-> "none"]
    ELSE IF mcp[i] = "empty_command"
         THEN [ok |-> FALSE, services |-> services,
               err |-> "Empty command for mcp tool"]
    ELSE IF mcp[i] # "ok"
         THEN [ok |-> FALSE, services |-> services, err |-> mcp[i]]
    ELSE start_mcp_toolboxes(mcp, i + 1, Append(services, i))

StartMcpToolboxes ==
    /\ st = "mcp"
    /\ LET r == start_mcp_toolboxes(config.mcp, 1, <<>>) IN
        /\ opened' = {r.services[i] : i \in DOMAIN r.services}
        /\ mcp_toolboxes' = IF r.ok THEN r.services ELSE <<>>
        /\ st' = IF r.ok THEN "build" ELSE "failed"
        /\ result' = IF r.ok THEN result ELSE r.err
    /\ UNCHANGED <<config, on_agent_build, joinSteps, git_environment,
                   builtin_tools, delegate_tools, builder, hookCalls, sessionVars,
                   restVars>>

\* agents::coding::build or build_plan_and_act (154-179, 232-284).  In
\* plan-and-act the inner coding agent is started first; the outer agent is
\* built with the filtered tools.
BuildAgent(r) ==
    /\ st = "build"
    /\ delegate_tools' =
          IF config.agent = "PlanAct" /\ r # "inner_failed"
          THEN DelegateTools(builtin_tools)
          ELSE delegate_tools
    /\ builder' = IF r = "ok" THEN "built" ELSE builder
    /\ st' = IF r = "ok" THEN "hook" ELSE "failed"
    /\ result' = IF r = "ok" THEN result ELSE "agent_build"
    /\ UNCHANGED <<config, on_agent_build, joinSteps, git_environment,
                   builtin_tools, opened, mcp_toolboxes, hookCalls, sessionVars,
                   restVars>>

OnAgentBuildIgnoresError ==
    /\ st = "hook"
    /\ on_agent_build' = "none"
    /\ hookCalls' = IF on_agent_build = "none" THEN hookCalls ELSE hookCalls + 1
    /\ builder' = IF on_agent_build = "ok" THEN "customized" ELSE builder
    /\ st' = "finalize"
    /\ UNCHANGED <<config, joinSteps, result, git_environment, builtin_tools,
                   opened, mcp_toolboxes, delegate_tools, sessionVars, restVars>>

\* if let Some(Some(on_agent_build)) = self.on_agent_build.take() (181-183)
OnAgentBuild ==
    /\ st = "hook"
    /\ on_agent_build' = "none"
    /\ hookCalls' = IF on_agent_build = "none" THEN hookCalls ELSE hookCalls + 1
    /\ builder' = IF on_agent_build = "ok" THEN "customized" ELSE builder
    /\ st' = IF on_agent_build = "err" THEN "failed" ELSE "finalize"
    /\ result' = IF on_agent_build = "err" THEN "on_agent_build" ELSE result
    /\ UNCHANGED <<config, joinSteps, git_environment, builtin_tools, opened,
                   mcp_toolboxes, delegate_tools, sessionVars, restVars>>

\* builder.build()?, the RunningSession, the spawned actor (185-205)
Finalize(r) ==
    /\ st = "finalize"
    /\ st' = IF r = "ok" THEN "running" ELSE "failed"
    /\ result' = IF r = "ok" THEN "ok" ELSE "agent_finalize"
    /\ holds' = IF r = "ok" THEN [p \in Clients |-> p = 1] ELSE holds
    /\ actor' = IF r = "ok" THEN [pc |-> "recv", msg |-> NoAgent] ELSE actor
    /\ message_task_handle' = IF r = "ok" THEN "held" ELSE message_task_handle
    /\ UNCHANGED <<config, on_agent_build, joinSteps, git_environment,
                   builtin_tools, opened, mcp_toolboxes, delegate_tools, builder,
                   hookCalls, restVars>>

Outcomes == {"ok", "err"}

(***************************************************************************)
(* The specifications.  Each one runs a part of the program from a state   *)
(* the program reaches.                                                    *)
(***************************************************************************)
\* start(), for every list of MCP providers
NextStart ==
    \/ \E r \in {"ok", "session_build", "simple_prompt_model"} : BuildSession(r)
    \/ \E i \in JoinSteps, r \in Outcomes : JoinStep(i, r)
    \/ \E r \in Outcomes : GitSetup(r)
    \/ AssembleTools
    \/ StartMcpToolboxes
    \/ \E r \in {"ok", "inner_failed", "outer_failed"} : BuildAgent(r)
    \/ OnAgentBuild
    \/ \E r \in Outcomes : Finalize(r)

SpecStart == InitStart /\ [][NextStart]_vars

\* the tools start() assembles and hands to the agents, for every tool
\* configuration
NextTools ==
    \/ AssembleTools
    \/ StartMcpToolboxes
    \/ \E r \in {"ok", "inner_failed", "outer_failed"} : BuildAgent(r)

SpecTools == InitTools /\ [][NextTools]_vars

\* the active-agent slot: direct swaps, reads, control messages and the actor
NextSwap ==
    \/ \E p \in Clients : ActiveAgent(p)
    \/ \E p \in Clients, a \in Agents : SwapAgent(p, a)
    \/ \E p \in Clients : SwapAgentDone(p)
    \/ \E a \in Agents : SessionSwapAgent(a)
    \/ ActorRecv
    \/ ActorSwapAgent
    \/ ActorSwapAgentDone

SpecSwap == InitShared /\ [][NextSwap]_vars

\* stop() and the cancel token, with direct swaps going on
NextStop ==
    \/ \E p \in Clients, a \in Agents : SwapAgent(p, a)
    \/ \E p \in Clients : SwapAgentDone(p)
    \/ \E p \in Clients : CancelToken(p)
    \/ \E t \in Tokens : Cancel(t)
    \/ \E p \in Clients : ResetCancelToken(p)
    \/ \E p \in Clients : StopReset(p)
    \/ \E p \in Clients : StopCopy(p)
    \/ \E p \in Clients : StopAgent(p)

SpecStop == InitShared /\ [][NextStop]_vars

\* the runs and the cancel token
NextRun ==
    \/ \E p \in Clients : CancelToken(p)
    \/ \E t \in Tokens : Cancel(t)
    \/ \E p \in Clients : ResetCancelToken(p)
    \/ \E p \in Clients : StopReset(p)
    \/ \E p \in Clients : StopCopy(p)
    \/ \E p \in Clients : StopAgent(p)
    \/ \E p \in Clients : QueryAgent(p)
    \/ \E p \in Clients : RunAgent(p)
    \/ \E p \in Clients : RunEnd(p)

SpecRun == InitShared /\ [][NextRun]_vars

\* the active-agent slot while agents run and are stopped
NextSlot ==
    \/ \E p \in Clients : ActiveAgent(p)
    \/ \E p \in Clients, a \in Agents : SwapAgent(p, a)
    \/ \E p \in Clients : SwapAgentDone(p)
    \/ \E p \in Clients : StopReset(p)
    \/ \E p \in Clients : StopCopy(p)
    \/ \E p \in Clients : StopAgent(p)
    \/ \E p \in Clients : QueryAgent(p)
    \/ \E p \in Clients : RunAgent(p)
    \/ \E p \in Clients : RunEnd(p)

SpecSlot == InitShared /\ [][NextSlot]_vars

\* stop() while the actor swaps the agent in the slot
NextStopSwap ==
    \/ \E a \in Agents : SessionSwapAgent(a)
    \/ ActorRecv
    \/ ActorSwapAgent
    \/ ActorSwapAgentDone
    \/ \E p \in Clients : StopReset(p)
    \/ \E p \in Clients : StopCopy(p)
    \/ \E p \in Clients : StopAgent(p)

SpecStopSwap == InitShared /\ [][NextStopSwap]_vars

\* the clones, their release, the control messages and the actor
NextDrop ==
    \/ \E p, q \in Clients : Clone(p, q)
    \/ \E p \in Clients, ctx \in Contexts, failing \in SUBSET Conns :
          Release(p, ctx, failing)
    \/ \E failing \in SUBSET Conns : ActorAborted(failing)
    \/ ReleaseDescriptor
    \/ \E a \in Agents : SessionSwapAgent(a)
    \/ ActorRecv
    \/ ActorSwapAgent
    \/ ActorSwapAgentDone

SpecDrop == InitRunning /\ [][NextDrop]_vars

\* the release of every clone and of the descriptor, with every cancel()
\* succeeding, on a runtime that keeps scheduling the actor's task: a message
\* in the channel is received, a received message is applied, and an aborted
\* task is cancelled once it waits in recv
NextAbort ==
    \/ \E p \in Clients, ctx \in Contexts : Release(p, ctx, {})
    \/ ActorAborted({})
    \/ ReleaseDescriptor
    \/ \E a \in Agents : SessionSwapAgent(a)
    \/ ActorRecv
    \/ ActorSwapAgent
    \/ ActorSwapAgentDone

ActorFairness ==
    /\ WF_vars(ActorRecv)
    /\ WF_vars(ActorSwapAgent)
    /\ WF_vars(ActorSwapAgentDone)
    /\ WF_vars(ActorAborted({}))

SpecDropFair == InitShared /\ [][NextAbort]_vars /\ ActorFairness

(***************************************************************************)
(* The claims.                                                             *)
(***************************************************************************)
SomeHandleLive == (\E p \in Clients : holds[p]) \/ actor.pc # "dead"

\* C1: each toolbox connection gets exactly one cancel attempt in total: none
\* while some RunningSession handle (a caller's or the actor's) is live, and
\* exactly one once the last handle has been released.
C1_ExactlyOneCancel ==
    \A c \in Conns : attempts[c] = IF SomeHandleLive THEN 0 ELSE 1

\* C2: when start() has failed, every connection it had opened has been
\* cancelled and no RunningSession was returned.
C2_FailedStartCancelsOpened ==
    st = "failed" =>
        /\ \A c \in opened : attempts[c] >= 1
        /\ \A p \in Clients : ~holds[p]

\* C3: every value active_agent() returned is a whole agent handle, the initial
\* agent or an agent some swap_agent call had written before; while nobody
\* holds the lock the slot holds one whole handle.
C3_AtomicSwap ==
    /\ \A p \in Clients :
          /\ IsWhole(lastRead[p])
          /\ lastRead[p][1] \in written \cup {0}
    /\ agentMutex = NoOwner =>
          /\ IsWhole(active_agent)
          /\ active_agent[1] \in written \cup {0}

\* a read returned a swapped-in agent while another swap is writing the slot
C3_Witness ==
    /\ \E p \in Clients : lastRead[p] = Whole(1)
    /\ agentMutex = Locked
    /\ ~IsWhole(active_agent)

IsPrefix(s, t) ==
    /\ Len(s) <= Len(t)
    /\ \A i \in 1..Len(s) : s[i] = t[i]

\* C4: while the actor is not stopped, the messages sent are applied one at a
\* time in send order (the accepted messages are those applied, the one being
\* applied and those queued, in this order); with no direct swap_agent call,
\* once all are processed the active agent is the one of the last message.
C4_MessagesAppliedInOrder ==
    /\ IsPrefix(applied, sent)
    /\ actor.pc # "dead" =>
          sent = applied
                 \o (IF actor.pc \in {"swap", "swap_write"} THEN <<actor.msg>>
                     ELSE <<>>)
                 \o running_session_rx
    /\ (actor.pc = "recv" /\ running_session_rx = <<>> /\ sent # <<>>) =>
          /\ applied = sent
          /\ active_agent = Whole(sent[Len(sent)])

\* two messages carrying different agents were sent and both were applied
C4_Witness ==
    /\ Len(sent) >= 2
    /\ sent[1] # sent[2]
    /\ applied = sent
    /\ actor.pc = "recv"

\* C5: when one of the four concurrent startup steps has failed, start() has
\* returned that step's error, whatever the other three steps did; no
\* RunningSession exists, and the git environment, the tools, the toolboxes and
\* the agent build were never begun.
C5_FailFastJoin ==
    \A i \in JoinSteps :
        joinSteps[i] = "err" =>
            /\ st = "failed"
            /\ result = JoinStepNames[i]
            /\ \A p \in Clients : ~holds[p]
            /\ actor.pc = "none"
            /\ git_environment = "none"
            /\ builtin_tools = <<>>
            /\ opened = {}
            /\ builder = "none"

\* a step failed while another had completed and a third was still pending
C5_Witness ==
    /\ st = "failed"
    /\ \E i, j, k \in JoinSteps :
          /\ joinSteps[i] = "err"
          /\ joinSteps[j] = "ok"
          /\ joinSteps[k] = "pending"

\* C6: in plan-and-act, the tool list handed to the outer agent holds no tool
\* named write_file, shell_command, replace_lines or add_lines, and holds
\* delegate_coding_agent exactly once.
C6_DelegateIsolation ==
    delegate_tools # <<>> =>
        /\ \A i \in DOMAIN delegate_tools :
              delegate_tools[i] \notin
                  {"write_file", "shell_command", "replace_lines", "add_lines"}
        /\ Cardinality({i \in DOMAIN delegate_tools :
                            delegate_tools[i] = "delegate_coding_agent"}) = 1

\* line edit mode: the assembled tools hold all four blacklisted names, and
\* the outer agent's list was built from them
C6_Witness ==
    /\ config.agent = "PlanAct"
    /\ delegate_tools # <<>>
    /\ \A n \in {"write_file", "shell_command", "replace_lines", "add_lines"} :
          Contains(builtin_tools, n)

StopResets(p) == pc[p] = "idle" /\ pc'[p] = "stop_copy"

StopReturns(p) == pc[p] = "stop_await" /\ pc'[p] = "idle"

\* what C7 says of the token, read for the interleavings it names
\* (cancel_token(), reset_cancel_token(), swap_agent()): when stop() returns the
\* token stop() found has been replaced by a later one, which is cancelled only
\* if a caller cancelled a copy of it
FreshTokenAtReturn(p) ==
    /\ cancel_token' > stopEntry[p]
    /\ cancel_token' \in cancelled' => cancel_token' \in tok'

\* C7 as stated: when stop() returns, the current token is fresh and the agent
\* that is active then (the one a reader of the slot gets) has been asked to
\* stop.
C7_StopLeavesActiveAgentStopped ==
    [][\A p \in Clients :
          StopReturns(p) =>
              /\ FreshTokenAtReturn(p)
              /\ agentMutex' = NoOwner => stopRequested' = active_agent']_vars

\* C7, amended: stop() installs a token that is new and not cancelled; when
\* stop() returns the current token is that one or a later one, and the agent
\* asked to stop is the whole handle stop() copied from the slot (under a
\* concurrent swap_agent the agent active at the return may be another one).
C7_StopResetsTokenAndStopsCopiedAgent ==
    [][\A p \in Clients :
          /\ StopResets(p) =>
                /\ cancel_token' # cancel_token
                /\ cancel_token' \notin cancelled'
                /\ stopEntry'[p] = cancel_token
          /\ StopReturns(p) =>
                /\ FreshTokenAtReturn(p)
                /\ stopRequested' = copied[p]
                /\ IsWhole(copied[p])
                /\ copied[p][1] \in written \cup {0}]_vars

\* a stop() that found a cancelled token has returned: the agent swapped in
\* before it was asked to stop, the current token is a later one, not cancelled
C7_Witness ==
    /\ stopRequested = Whole(1)
    /\ 0 \in cancelled
    /\ cancel_token > 0
    /\ cancel_token \notin cancelled
    /\ \A p \in Clients : pc[p] = "idle"

\* C8: no run (run_agent or query_agent) begins while the session's current
\* token is a cancelled one.
C8_RunsStartUncancelled == ~runOnCancelled

\* C9: every teardown of a RunningSession attempts the cancel of every one of
\* its connections, whichever cancels fail, and raises no error.
C9_TeardownAttemptsAll ==
    lastDrop.ran =>
        /\ lastDrop.attempted = Conns
        /\ ~lastDrop.panic

\* The loop of Drop::drop itself goes on after a failed cancel: a teardown that
\* reaches the loop attempts every connection and logs the failures.
DropLoopContinuesPastErrors ==
    (lastDrop.ran /\ ~lastDrop.panic) =>
        /\ lastDrop.attempted = Conns
        /\ lastDrop.logged \subseteq lastDrop.attempted

\* C10: releasing a RunningSession handle never panics, with or without a
\* runtime to block on.
C10_DropNeverPanics == ~panicked

\* available_builtin_tools has returned Ok and start() holds its list
Assembled == st # "tools" /\ result # "tavily"

\* the list available_builtin_tools builds before its retain, recomputed for
\* the configuration with nothing disabled
Unfiltered ==
    available_builtin_tools([config EXCEPT !.disabled_tools = {}],
                            git_environment).tools

Count(s, n) == Cardinality({i \in DOMAIN s : s[i] = n})

\* C11: no tool with a disabled name is in the list available_builtin_tools
\* returned, whichever branch added it and however often; the tools that are
\* not disabled are all kept, in the order they were added: the k-th tool of
\* the result is the k-th not-disabled tool of the list before the retain.
C11_DisabledToolsRemoved ==
    Assembled =>
        LET kept == {i \in DOMAIN Unfiltered :
                         Unfiltered[i] \notin config.disabled_tools}
            rank(i) == Cardinality({j \in kept : j <= i})
        IN  /\ \A k \in DOMAIN builtin_tools :
                  builtin_tools[k] \notin config.disabled_tools
            /\ Len(builtin_tools) = Cardinality(kept)
            /\ \A i \in kept : builtin_tools[rank(i)] = Unfiltered[i]

\* whole-file edit mode with write_file disabled: the name was added twice, by
\* the baseline and by the edit-mode group, and other tools were kept
C11_Witness ==
    /\ Assembled
    /\ config.disabled_tools = {"write_file"}
    /\ Count(Unfiltered, "write_file") = 2
    /\ Len(builtin_tools) = Len(Unfiltered) - 2
    /\ Contains(builtin_tools, "reset_file")

LineNoIntegrations ==
    /\ config.agent_edit_mode = "Line"
    /\ ~config.github
    /\ config.tavily_api_key = "none"
    /\ ~config.test
    /\ ~config.coverage
    /\ config.disabled_tools = {}

BaselineNames ==
    {"write_file", "search_file", "git", "shell_command", "search_code",
     "fetch_url", "explain_code"}

LineGroup == {"read_file_with_line_numbers", "replace_lines", "add_lines"}

\* the names of the edit-mode groups found behind the seven baseline tools
GroupNamesAdded ==
    {builtin_tools[i] : i \in 8..Len(builtin_tools)}
        \cap {"write_file", "read_file", "read_file_with_line_numbers",
              "replace_lines", "add_lines", "patch_file"}

\* with nothing disabled, the tools added behind the baseline are those of the
\* configured edit mode's group and of no other group
ExactlyOneGroupAdded ==
    config.disabled_tools = {} =>
        GroupNamesAdded =
            CASE config.agent_edit_mode = "Whole" -> {"write_file", "read_file"}
              [] config.agent_edit_mode = "Line" -> LineGroup
              [] config.agent_edit_mode = "Patch" ->
                    {"read_file_with_line_numbers", "patch_file"}

\* C12 as stated: in line edit mode with no integration and nothing disabled
\* the list holds the baseline tools and the three line tools and holds none
\* of write_file, read_file and patch_file; in every edit mode exactly one
\* group is added.
C12_LineModeExcludesWholeFileWrite ==
    Assembled =>
        /\ LineNoIntegrations =>
              /\ \A n \in BaselineNames \cup LineGroup : Contains(builtin_tools, n)
              /\ \A n \in {"write_file", "read_file", "patch_file"} :
                    ~Contains(builtin_tools, n)
        /\ ExactlyOneGroupAdded

\* C12, amended: in line edit mode with no integration and nothing disabled
\* the list holds the baseline tools (write_file among them, once) and the
\* three line tools, and holds neither read_file nor patch_file; in every edit
\* mode exactly one group is added.
C12_LineModeTools ==
    Assembled =>
        /\ LineNoIntegrations =>
              /\ \A n \in BaselineNames \cup LineGroup : Contains(builtin_tools, n)
              /\ Count(builtin_tools, "write_file") = 1
              /\ builtin_tools[1] = "write_file"
              /\ ~Contains(builtin_tools, "read_file")
              /\ ~Contains(builtin_tools, "patch_file")
        /\ ExactlyOneGroupAdded

\* the tools were assembled for line edit mode with no integration and nothing
\* disabled
C12_Witness ==
    /\ Assembled
    /\ LineNoIntegrations
    /\ Contains(builtin_tools, "replace_lines")

\* the first provider of the list that cannot be started, 0 if all can
FirstFailing(mcp) ==
    IF \A i \in DOMAIN mcp : mcp[i] = "ok" THEN 0
    ELSE CHOOSE i \in DOMAIN mcp :
             /\ mcp[i] # "ok"
             /\ \A j \in 1..(i - 1) : mcp[j] = "ok"

McpErrors == {"Empty command for mcp tool", "spawn_fails", "handshake_fails"}

\* C13: when a provider cannot be started, start() has failed with an error
\* that identifies the provider (no list of providers failing at another
\* provider yields the same error), and no connection to a later provider is
\* open.
C13_ErrorIdentifiesProvider ==
    (st = "failed" /\ result \in McpErrors) =>
        /\ \A p \in Clients : ~holds[p]
        /\ \A c \in opened : c < FirstFailing(config.mcp)
        /\ \A other \in SeqsUpTo(ProviderKinds, NumConns) :
              FirstFailing(other) \notin {0, FirstFailing(config.mcp)} =>
                  start_mcp_toolboxes(other, 1, <<>>).err # result

MutatingTools ==
    {"write_file", "replace_lines", "add_lines", "patch_file", "shell_command"}

\* C14: in plan-and-act, whatever the edit mode and the configuration, the
\* outer agent's tool list holds no tool that changes the workspace itself:
\* write_file, replace_lines, add_lines, patch_file, shell_command.
C14_OuterAgentCannotMutate ==
    (config.agent = "PlanAct" /\ delegate_tools # <<>>) =>
        \A i \in DOMAIN delegate_tools : delegate_tools[i] \notin MutatingTools

\* the senders of the channel: the descriptor's, reached through every
\* RunningSession clone (the actor's own clone included) and through the
\* references held outside the clones
ExternalSenderHeld == descriptor_held \/ \E p \in Clients : holds[p]

\* C15: the actor eventually terminates (1) once every sender held outside the
\* actor has been dropped and (2) once the last RunningSession clone carrying
\* the task handle has been released; after every external RunningSession
\* clone and every external descriptor reference is released, no actor task
\* stays running.
C15_ActorTerminates ==
    /\ (~ExternalSenderHeld) ~> (actor.pc = "dead")
    /\ (message_task_handle = "aborted") ~> (actor.pc = "dead")
    /\ [](actor.pc = "dead" => [](actor.pc = "dead"))

\* the actor has ended after the last clone and the last descriptor reference
\* were released with a message still in the channel
C15_Witness ==
    /\ ~ExternalSenderHeld
    /\ message_task_handle = "aborted"
    /\ actor.pc = "dead"
    /\ Len(sent) > Len(applied)

InProgress(p) == pc[p] \in {"running", "stop_await"}

\* C16: query_agent, run_agent and stop hold the slot's lock only for the
\* copy: the lock is held only by a swap_agent that is writing, never by a
\* caller whose agent is running or being stopped, so while one clone's
\* query/run/stop is in progress a swap_agent or active_agent call of an idle
\* clone can take the lock unless another swap is writing.
C16_LockOnlyWhileCopying ==
    /\ agentMutex = Locked =>
          \/ \E p \in Clients : pc[p] = "swap_write"
          \/ actor.pc = "swap_write"
    /\ \A p, q \in Clients :
          (/\ InProgress(p)
           /\ holds[q] /\ pc[q] = "idle"
           /\ \A r \in Clients : pc[r] # "swap_write") =>
              /\ ENABLED ActiveAgent(q)
              /\ \A a \in Agents : ENABLED SwapAgent(q, a)

\* while one clone's run is still in progress another clone has swapped the
\* agent in the slot and read it back
C16_Witness ==
    \E p, q \in Clients :
        /\ p # q
        /\ pc[p] = "running"
        /\ pc[q] = "idle"
        /\ active_agent = Whole(1)
        /\ lastRead[q] = Whole(1)

\* C17: every SwapAgent message whose send returned Ok is applied to the slot
\* exactly once, whatever clones are released meanwhile; none is dropped
\* unapplied: at every moment an accepted message has been applied, is being
\* applied, or is still in the channel.
C17_NoAcceptedMessageLost ==
    /\ IsPrefix(applied, sent)
    /\ sent = applied
              \o (IF actor.pc \in {"swap", "swap_write"} THEN <<actor.msg>>
                  ELSE <<>>)
              \o running_session_rx

HookStep == st = "hook" /\ st' # "hook"

\* C18: a supplied hook is called exactly once, on the agent builder the build
\* pipeline produced and before the agent is finalized, and never anywhere
\* else; when the hook fails start() fails with the hook's error, and then the
\* agent is never finalized, no actor is spawned and no RunningSession exists.
C18_HookOnceBeforeFinalize ==
    /\ [][/\ hookCalls' # hookCalls => HookStep
          /\ HookStep =>
                /\ hookCalls = 0
                /\ builder = "built"
                /\ hookCalls' = IF on_agent_build = "none" THEN 0 ELSE 1
                /\ on_agent_build = "err" =>
                      st' = "failed" /\ result' = "on_agent_build"
                /\ on_agent_build # "err" => st' = "finalize"
          /\ st' = "running" =>
                st = "finalize" /\ result # "on_agent_build"]_vars
    /\ [](result = "on_agent_build" =>
              /\ st = "failed"
              /\ hookCalls = 1
              /\ \A p \in Clients : ~holds[p]
              /\ actor.pc = "none"
              /\ message_task_handle = "none")

\* start() has failed with the error of the hook, which was called once on
\* the built agent builder
C18_Witness ==
    /\ st = "failed"
    /\ result = "on_agent_build"
    /\ hookCalls = 1
    /\ builder = "built"

StopCopies(p) == pc[p] = "stop_copy" /\ pc'[p] = "stop_await"

\* a step of some swap_agent call, a caller's or the actor's
SwapStep ==
    \/ \E p \in Clients : pc[p] = "swap_write" \/ pc'[p] = "swap_write"
    \/ actor.pc = "swap_write" \/ actor'.pc = "swap_write"

\* C19: stop() replaces the token first, then copies the slot, then asks the
\* agent it copied to stop, and no other agent: no step of stop() changes the
\* slot, a stop request is only ever made at the end of a stop() call and goes
\* to that call's copy, so an agent swapped in after the copy (by a caller or
\* by the actor) gets no request from that call.
C19_StopRequestsCopiedAgentOnly ==
    [][/\ \A p \in Clients :
            /\ StopResets(p) =>
                  /\ cancel_token' # cancel_token
                  /\ UNCHANGED <<active_agent, agentMutex, stopRequested, copied>>
            /\ StopCopies(p) =>
                  /\ cancel_token > stopEntry[p]
                  /\ agentMutex = NoOwner
                  /\ copied'[p] = active_agent
                  /\ UNCHANGED <<active_agent, agentMutex, stopRequested,
                                 cancel_token>>
            /\ StopReturns(p) =>
                  /\ stopRequested' = copied[p]
                  /\ IsWhole(copied[p])
                  /\ UNCHANGED <<active_agent, agentMutex, cancel_token>>
       /\ stopRequested' # stopRequested => \E p \in Clients : StopReturns(p)
       /\ active_agent' # active_agent => SwapStep]_vars

\* stop() copied the initial agent; the actor then swapped another agent in,
\* and stop() returned having asked the initial agent, not the new one
C19_Witness ==
    /\ stopRequested = Whole(0)
    /\ active_agent = Whole(1)
    /\ written = {1}
    /\ applied = <<1>>
    /\ \A p \in Clients : pc[p] = "idle"

\* C20: replacing the token (reset_cancel_token(), stop()) cancels nothing:
\* the set of cancelled tokens changes only when a caller cancels a copy it
\* holds, and then by that one token, so the token current after a reset is
\* not cancelled by the cancel of an older copy; the token installed is new,
\* not cancelled and held by nobody; cancel_token() gives every clone the
\* token that is current.
C20_TokenGenerationsIndependent ==
    [][/\ cancelled' # cancelled =>
              /\ \E t \in tok : t \notin cancelled /\ cancelled' = cancelled \cup {t}
              /\ cancel_token' = cancel_token
       /\ cancel_token' # cancel_token =>
              /\ cancelled' = cancelled
              /\ cancel_token' \notin cancelled'
              /\ cancel_token' \notin tok'
              /\ \A t \in Tokens : t <= tokensMade => cancel_token' # t
       /\ tok' # tok => tok' = tok \cup {cancel_token}]_vars

\* a copy of the first token was cancelled while a later token is current: the
\* current token has a copy held by a caller and is not cancelled
C20_Witness ==
    /\ cancelled = {0}
    /\ cancel_token = 1
    /\ tok = {0, 1}
    /\ stopRequested = Whole(NoAgent)

====
